---- MODULE Spec2Model ----
(***************************************************************************)
(* Model of the code-generator CLI: the generation/update pipeline of      *)
(* core/projectGenerator.ts (generateProject, run by listr2 as a           *)
(* sequential task list), the compiler wrapper, the package installer, the *)
(* filesystem helpers and the structure reconciler                         *)
(* (mergeProjectStructures).                                               *)
(***************************************************************************)
EXTENDS Integers, Sequences, FiniteSets, TLC

VARIABLES
    isUpdate,           \* options.isUpdate
    disk,               \* the output directory: path -> content (NoFile when absent)
    existingStructure,  \* generateProject's existingStructure (Null when not loaded)
    freshStructure,     \* what llmService.generateProjectStructure returned
    projectPlan,        \* ctx.projectPlan
    projectStructure,   \* ctx.projectStructure
    pc,                 \* position of the run (the task, or the await inside it)
    idx,                \* loop index of the directory / file / fix-file loop in progress
    compilationResult,  \* the first CompilationResult of the compile task
    recompilationResult,\* the second CompilationResult of the compile task
    fixedFiles,         \* the compile task's fixedFiles
    fixArgs,            \* the arguments of the last llmService.fixCompilationErrors call
    docs,               \* the documentation task's docs
    stageLog,           \* the tasks started so far, in start order
    calls,              \* how often each provider operation, the compiler and the installer were invoked
    writes,             \* every writeFileWithContent call so far: stage, path, content, ok
    raised,             \* the errors raised so far by the provider, the filesystem and the installer
    thrown,             \* the stage whose error generateProject rethrew ("" when none)
    response,           \* the text a provider answered with, and what kind of text it is
    operation,          \* the provider operation that recovers the response
    recovered,          \* what parseJsonFromText returned for the response
    modelName,          \* options.modelName
    apiKey,             \* whether the environment holds the API key of modelName
    diskBefore,         \* the output directory as generateProject found it
    fileChanges         \* updateProject's fileChanges (Null before they are computed)

vars == <<isUpdate, disk, existingStructure, freshStructure, projectPlan,
          projectStructure, pc, idx, compilationResult, recompilationResult,
          fixedFiles, fixArgs, docs, stageLog, calls, writes, raised, thrown,
          response, operation, recovered, modelName, apiKey, diskBefore, fileChanges>>

recoverVars == <<response, operation, recovered>>
serviceVars == <<modelName, apiKey>>
setupVars == <<isUpdate, existingStructure, diskBefore>>
ctxVars == <<projectPlan, freshStructure, projectStructure>>
compileVars == <<compilationResult, recompilationResult, fixedFiles, fixArgs>>

(***************************************************************************)
(* Bounds of the model                                                     *)
(***************************************************************************)
MaxFiles == 2       \* files in a structure returned by the provider
MaxFixFiles == 1    \* files in an array returned by the fix operation
MaxMergeFiles == 2  \* files in each input of the reconciler, checked on its own

(***************************************************************************)
(* Values                                                                  *)
(***************************************************************************)
Null == [null |-> TRUE]           \* null / undefined
NoFile == [absent |-> TRUE]       \* a path with no file on disk
Malformed == [malformed |-> TRUE] \* a recovered JSON value without the expected array fields

\* no response text (outside the recovery of a response)
NoResponse == [text |-> <<>>, kind |-> "none", expected |-> <<>>]

Text(s) == [text |-> s]
ManifestContent(deps, devDeps) == [dependencies |-> deps, devDependencies |-> devDeps]

SrcPaths == {"a.ts", "b.ts"}
TextContents == {Text("x"), Text("y")}
Dirs == {"src"}
DepNames == {"d1", "d2"}
Versions == {"1", "2"}

EmptyMap == [k \in {} |-> "1"]
DepMaps == UNION {[ks -> Versions] : ks \in SUBSET DepNames}

ProjectFile == [path : SrcPaths, content : TextContents]

SeqsUpTo(S, n) == UNION {[1..k -> S] : k \in 0..n}

Range(s) == {s[i] : i \in DOMAIN s}

PathsOf(files) == {files[i].path : i \in DOMAIN files}

(***************************************************************************)
(* StructureReconciler: mergeProjectStructures                             *)
(***************************************************************************)
DedupNone(s) == s

\* Array.from(new Set(s)): first occurrences, in order
RECURSIVE Dedup(_)
Dedup(s) ==
    IF s = <<>> THEN <<>>
    ELSE LET front == Dedup(SubSeq(s, 1, Len(s) - 1))
             last == s[Len(s)]
         IN IF last \in Range(front) THEN front ELSE Append(front, last)

\* Array.prototype.filter
RECURSIVE Filter(_, _)
Filter(s, keep) ==
    IF s = <<>> THEN <<>>
    ELSE LET rest == Filter(Tail(s), keep)
         IN IF Head(s) \in keep THEN <<Head(s)>> \o rest ELSE rest

SpreadFirstWins(a, b) ==
    [k \in (DOMAIN a) \cup (DOMAIN b) |-> IF k \in DOMAIN a THEN a[k] ELSE b[k]]

\* { ...a, ...b }
Spread(a, b) ==
    [k \in (DOMAIN a) \cup (DOMAIN b) |-> IF k \in DOMAIN b THEN b[k] ELSE a[k]]

mergeFreshOnly(existing, newStructure) ==
    [directories |-> Dedup(existing.directories \o newStructure.directories),
     files |-> newStructure.files,
     dependencies |->
        [dependencies |-> Spread(existing.dependencies.dependencies,
                                 newStructure.dependencies.dependencies),
         devDependencies |-> Spread(existing.dependencies.devDependencies,
                                    newStructure.dependencies.devDependencies)]]

mergeKeepAll(existing, newStructure) ==
    [directories |-> Dedup(existing.directories \o newStructure.directories),
     files |-> existing.files \o newStructure.files,
     dependencies |->
        [dependencies |-> Spread(existing.dependencies.dependencies,
                                 newStructure.dependencies.dependencies),
         devDependencies |-> Spread(existing.dependencies.devDependencies,
                                    newStructure.dependencies.devDependencies)]]

mergeProjectStructures(existing, newStructure) ==
    LET directories == Dedup(existing.directories \o newStructure.directories)
        newFilePaths == PathsOf(newStructure.files)
        unchangedFiles ==
            Filter(existing.files,
                   {f \in Range(existing.files) : f.path \notin newFilePaths})
        files == unchangedFiles \o newStructure.files
        dependencies ==
            [dependencies |-> Spread(existing.dependencies.dependencies,
                                     newStructure.dependencies.dependencies),
             devDependencies |-> Spread(existing.dependencies.devDependencies,
                                        newStructure.dependencies.devDependencies)]
    IN [directories |-> directories, files |-> files, dependencies |-> dependencies]

(***************************************************************************)
(* Filesystem (utils/fileSystem.ts) and the output directory               *)
(***************************************************************************)
DirEntry == [dir |-> TRUE]        \* a path that is a directory

DiskPaths == SrcPaths \cup {"package.json", "README.md", "ENHANCEMENTS.md"} \cup Dirs

IsFile(d, p) == d[p] # NoFile /\ d[p] # DirEntry

\* fs.access succeeds
fileExists(d, p) == d[p] # NoFile

\* the disk after a successful fs.writeFile
Written(d, p, content) == [d EXCEPT ![p] = content]

\* the disk after createDirectoryIfNotExists returned
DirEnsured(d, dir) == IF fileExists(d, dir) THEN d ELSE [d EXCEPT ![dir] = DirEntry]

WriteRecord(stage, p, content, ok) ==
    [stage |-> stage, path |-> p, content |-> content, ok |-> ok]

(***************************************************************************)
(* extractExistingProjectStructure                                         *)
(***************************************************************************)
MAX_FILES == 20
IMPORTANT_EXTENSIONS == {".ts", ".js", ".json", ".md", ".yaml", ".yml"}
KEY_FILES == <<"package.json", "tsconfig.json", "README.md">>

\* the order of `find . -type f | sort` over the paths of the model
SortedPaths == <<"ENHANCEMENTS.md", "README.md", "a.ts", "b.ts", "package.json">>

\* the order of `find . -type d | sort` over the directories of the model
SortedDirs == <<"src">>

\* path.extname over the paths of the model
extname(p) ==
    CASE p \in {"a.ts", "b.ts"} -> ".ts"
      [] p \in {"README.md", "ENHANCEMENTS.md"} -> ".md"
      [] p = "package.json" -> ".json"
      [] OTHER -> ""

\* String.prototype.endsWith over the paths of the model: they are
\* top-level names, none a proper suffix of a key file name
endsWith(p, suffix) == p = suffix

\* the files found by `find`
filePathsOf(d) == Filter(SortedPaths, {p \in Range(SortedPaths) : IsFile(d, p)})

\* "First add key files"
RECURSIVE AddKeyFiles(_, _, _)
AddKeyFiles(d, k, files) ==
    IF k > Len(KEY_FILES) THEN files
    ELSE LET found == Filter(filePathsOf(d),
                             {p \in Range(SortedPaths) : endsWith(p, KEY_FILES[k])})
         IN IF found = <<>> THEN AddKeyFiles(d, k + 1, files)
            ELSE AddKeyFiles(d, k + 1,
                    Append(files, [path |-> Head(found), content |-> d[Head(found)]]))

\* "Then add important files by extension"
RECURSIVE AddImportantFiles(_, _, _)
AddImportantFiles(d, rest, files) ==
    IF rest = <<>> \/ Len(files) >= MAX_FILES THEN files
    ELSE IF Head(rest) \in PathsOf(files) THEN AddImportantFiles(d, Tail(rest), files)
    ELSE IF extname(Head(rest)) \in IMPORTANT_EXTENSIONS
         THEN AddImportantFiles(d, Tail(rest),
                 Append(files, [path |-> Head(rest), content |-> d[Head(rest)]]))
         ELSE AddImportantFiles(d, Tail(rest), files)

\* JSON.parse of a manifest: the dependency maps, or Null when the content is not JSON
ParseManifest(content) ==
    IF "dependencies" \in DOMAIN content THEN content ELSE Null

extractExistingProjectStructure(d) ==
    LET directories == Filter(SortedDirs, {x \in Dirs : d[x] = DirEntry})
        files == AddImportantFiles(d, filePathsOf(d), AddKeyFiles(d, 1, <<>>))
        packageJson == IF IsFile(d, "package.json") THEN ParseManifest(d["package.json"])
                       ELSE Null
        dependencies ==
            IF packageJson = Null
            THEN [dependencies |-> EmptyMap, devDependencies |-> EmptyMap]
            ELSE [dependencies |-> packageJson.dependencies,
                  devDependencies |-> packageJson.devDependencies]
    IN [directories |-> directories, files |-> files, dependencies |-> dependencies]

(***************************************************************************)
(* What the collaborators can answer                                       *)
(***************************************************************************)
MaxDirs == 1        \* directories in a structure returned by the provider
MaxDocFiles == 1    \* additional files in a documentation returned by the provider
CEILING == 5000     \* the size ceiling of a fixable error message

\* lengths of the one message compileProject reports
ErrorLengths == {CEILING, CEILING + 1}

FreshDeps ==
    {[dependencies |-> [k \in {"d1"} |-> "2"], devDependencies |-> [k \in {"d1"} |-> "1"]]}

\* the well-formed values of llmService.generateProjectStructure
FreshStructures ==
    [directories : SeqsUpTo(Dirs, MaxDirs),
     files : SeqsUpTo(ProjectFile, MaxFiles),
     dependencies : FreshDeps]

\* the values of llmService.fixCompilationErrors: arrays of files, null, or
\* a recovered value that is not an array
FixResults ==
    {[kind |-> "array", files |-> f] : f \in SeqsUpTo(ProjectFile, MaxFixFiles)}
    \cup {[kind |-> "null", files |-> <<>>], [kind |-> "object", files |-> <<>>]}

DocFile == [path : {"a.ts"}, content : {Text("y")}]

\* the values of llmService.generateDocumentation
DocsResults ==
    [readme : {Text("x")}, additional : SeqsUpTo(DocFile, MaxDocFiles)] \cup {Malformed}

\* a compiler that neither returns nor raises
compileProjectHangs == {}

\* compileProject: success, or failure with exactly one message
\* (buildError.stderr || buildError.message); it catches every error
\* (hasErrors: the errors field is present; each message is given by its length)
compileProject ==
    {[success |-> TRUE, hasErrors |-> FALSE, errors |-> <<>>]}
    \cup {[success |-> FALSE, hasErrors |-> TRUE, errors |-> <<n>>] : n \in ErrorLengths}

\* the manifests a project directory can start with
InitManifests == {ManifestContent([k \in {"d1", "d2"} |-> "1"], EmptyMap)}

InitDisks ==
    {d \in [DiskPaths -> {NoFile, DirEntry, Text("x")} \cup InitManifests] :
        /\ d["package.json"] \in InitManifests \cup {NoFile}
        /\ d["a.ts"] \in {NoFile, Text("x")}
        /\ d["b.ts"] = NoFile
        /\ \A p \in Dirs : d[p] = NoFile
        /\ d["README.md"] = NoFile
        /\ d["ENHANCEMENTS.md"] = NoFile}

(***************************************************************************)
(* listr2: the task list of generateProject                                *)
(***************************************************************************)
TasksCompileBeforeInstall ==
    <<"PLAN", "STRUCTURE", "COMPILE", "INSTALL", "DOCUMENT", "ENHANCE">>

Tasks == <<"PLAN", "STRUCTURE", "INSTALL", "COMPILE", "DOCUMENT", "ENHANCE">>

TaskEnabledAlways(t, update) == TRUE

\* enabled: () => !isUpdate on the last task
TaskEnabled(t, update) == t = "ENHANCE" => ~update

TaskIndex(t) == CHOOSE i \in DOMAIN Tasks : Tasks[i] = t

\* the task listr2 runs after task t completed ("DONE" after the last one)
NextTask(t, update) ==
    LET later == {i \in DOMAIN Tasks : i > TaskIndex(t) /\ TaskEnabled(Tasks[i], update)}
    IN IF later = {} THEN "DONE"
       ELSE Tasks[CHOOSE i \in later : \A j \in later : i <= j]

Start(t) == stageLog' = Append(stageLog, t)

Called(op) == calls' = [calls EXCEPT ![op] = @ + 1]

\* error e was raised by a collaborator or by the task's own code
Raise(e) == raised' = raised \cup {e}

exitOnErrorNever(list) == FALSE

\* listr2's exitOnError: the default (true) on the task list of
\* generateProject, false on the sublist fileCreationTasks
exitOnError(list) == list = "tasks"

\* task t of the top-level list rejected: with exitOnError in force
\* tasks.run() rejects and generateProject rethrows
Fail(t) ==
    IF exitOnError("tasks") THEN pc' = "FAILED" /\ thrown' = t
    ELSE pc' = NextTask(t, isUpdate) /\ thrown' = ""

\* writeFileWithContent(p, content) in stage t succeeded
WriteOk(t, p, content) ==
    /\ disk' = Written(disk, p, content)
    /\ writes' = Append(writes, WriteRecord(t, p, content, TRUE))

\* writeFileWithContent(p, content) in stage t rejected with error e
WriteFails(t, p, content, e) ==
    /\ writes' = Append(writes, WriteRecord(t, p, content, FALSE))
    /\ Raise(e)
    /\ UNCHANGED disk

NoCalls == [op \in {"plan", "structure", "fix", "docs", "enhance", "compile", "install"} |-> 0]

(***************************************************************************)
(* generateProject                                                         *)
(***************************************************************************)
Init ==
    /\ isUpdate \in BOOLEAN
    /\ disk \in InitDisks
    /\ diskBefore = disk
    /\ fileChanges = Null
    /\ existingStructure = Null
    /\ freshStructure = Null
    /\ projectPlan = Null
    /\ projectStructure = Null
    /\ pc = "INIT"
    /\ idx = 0
    /\ compilationResult = Null
    /\ recompilationResult = Null
    /\ fixedFiles = Null
    /\ fixArgs = Null
    /\ docs = Null
    /\ stageLog = <<>>
    /\ calls = NoCalls
    /\ writes = <<>>
    /\ raised = {}
    /\ thrown = ""
    /\ response = NoResponse
    /\ operation = ""
    /\ recovered = Null
    /\ modelName = "ollama"
    /\ apiKey = FALSE

LoadExistingAborts ==
    /\ pc = "INIT"
    /\ \/ /\ IF isUpdate /\ fileExists(disk, "package.json")
             THEN \/ /\ existingStructure' = extractExistingProjectStructure(disk)
                     /\ pc' = "PLAN"
                     /\ UNCHANGED <<raised, thrown>>
                  \/ /\ existingStructure' = Null
                     /\ Raise("extract")
                     /\ pc' = "FAILED"
                     /\ thrown' = "INIT"
             ELSE /\ pc' = "PLAN"
                  /\ UNCHANGED <<existingStructure, raised, thrown>>
       \/ /\ Raise("outputDir")
          /\ pc' = "FAILED"
          /\ thrown' = "INIT"
          /\ UNCHANGED existingStructure
    /\ UNCHANGED <<serviceVars, fileChanges, recoverVars, isUpdate, diskBefore, disk, ctxVars, idx, compileVars, docs, stageLog,
                   calls, writes>>

\* "Load existing project structure for updates if needed": a failed
\* extraction is logged and leaves existingStructure null
LoadExisting ==
    /\ pc = "INIT"
    /\ \/ /\ IF isUpdate /\ fileExists(disk, "package.json")
             THEN \/ /\ existingStructure' = extractExistingProjectStructure(disk)
                     /\ UNCHANGED raised
                  \/ /\ existingStructure' = Null
                     /\ Raise("extract")
             ELSE UNCHANGED <<existingStructure, raised>>
          /\ pc' = "PLAN"
          /\ UNCHANGED thrown
       \/ \* createDirectoryIfNotExists(outputDir) rejects: generateProject rejects
          /\ Raise("outputDir")
          /\ pc' = "FAILED"
          /\ thrown' = "INIT"
          /\ UNCHANGED existingStructure
    /\ UNCHANGED <<serviceVars, fileChanges, recoverVars, isUpdate, diskBefore, disk, ctxVars, idx, compileVars, docs, stageLog,
                   calls, writes>>

\* task 'Analyzing requirements'
PlanTask ==
    /\ pc = "PLAN"
    /\ Start("PLAN")
    /\ Called("plan")
    /\ \/ /\ projectPlan' =
               [requirements |-> IF isUpdate /\ existingStructure # Null
                                 THEN "updateRequirements" ELSE "requirements"]
          /\ pc' = NextTask("PLAN", isUpdate)
          /\ UNCHANGED <<raised, thrown>>
       \/ /\ Raise("plan")
          /\ Fail("PLAN")
          /\ UNCHANGED projectPlan
    /\ UNCHANGED <<serviceVars, fileChanges, recoverVars, setupVars, disk, freshStructure, projectStructure, idx, compileVars,
                   docs, writes>>

\* task 'Creating/Updating project structure', up to ctx.projectStructure = ...
StructureTask ==
    /\ pc = "STRUCTURE"
    /\ Start("STRUCTURE")
    /\ Called("structure")
    /\ \/ \E result \in FreshStructures \cup {Malformed} :
            /\ freshStructure' = result
            /\ IF isUpdate /\ existingStructure # Null
               THEN IF result = Malformed
                    THEN \* [...newStructure.directories] of undefined throws
                         /\ Raise("structureShape")
                         /\ Fail("STRUCTURE")
                         /\ UNCHANGED projectStructure
                    ELSE /\ projectStructure' =
                                mergeProjectStructures(existingStructure, result)
                         /\ pc' = "STRUCTURE_DIRS"
                         /\ UNCHANGED <<raised, thrown>>
               ELSE /\ projectStructure' = result
                    /\ IF result = Malformed
                       THEN \* for (const dir of undefined) throws
                            Raise("structureShape") /\ Fail("STRUCTURE")
                       ELSE pc' = "STRUCTURE_DIRS" /\ UNCHANGED <<raised, thrown>>
       \/ \* the provider raises
          /\ Raise("structure")
          /\ Fail("STRUCTURE")
          /\ UNCHANGED <<freshStructure, projectStructure>>
    /\ idx' = 1
    /\ UNCHANGED <<serviceVars, fileChanges, recoverVars, setupVars, disk, projectPlan, compileVars, docs, writes>>

\* "Create subdirectories": one createDirectoryIfNotExists per step
CreateDirectory ==
    /\ pc = "STRUCTURE_DIRS"
    /\ idx <= Len(projectStructure.directories)
    /\ LET dir == projectStructure.directories[idx]
       IN \/ /\ disk' = DirEnsured(disk, dir)
             /\ idx' = idx + 1
             /\ UNCHANGED <<pc, raised, thrown>>
          \/ /\ ~fileExists(disk, dir)      \* fs.mkdir rejects
             /\ Raise("mkdir")
             /\ Fail("STRUCTURE")
             /\ UNCHANGED <<disk, idx>>
    /\ UNCHANGED <<serviceVars, fileChanges, recoverVars, setupVars, ctxVars, compileVars, docs, stageLog, calls, writes>>

\* the position after the file task at index i (exitOnError: false on the sublist)
AfterFileTask(i) ==
    IF i >= Len(projectStructure.files) THEN NextTask("STRUCTURE", isUpdate)
    ELSE "STRUCTURE_FILES"

\* return task.newListr(fileCreationTasks, ...)
StartFileTasks ==
    /\ pc = "STRUCTURE_DIRS"
    /\ idx > Len(projectStructure.directories)
    /\ pc' = AfterFileTask(0)
    /\ idx' = 1
    /\ UNCHANGED <<serviceVars, fileChanges, recoverVars, setupVars, disk, ctxVars, compileVars, docs, stageLog, calls, writes,
                   raised, thrown>>

FileUnchangedAnyRun(update, d, file) ==
    IsFile(d, file.path) /\ d[file.path] = file.content

\* "For updates, check if the file exists and has changed"
FileUnchanged(update, d, file) ==
    update /\ IsFile(d, file.path) /\ d[file.path] = file.content

\* one task of fileCreationTasks
FileTask ==
    /\ pc = "STRUCTURE_FILES"
    /\ LET file == projectStructure.files[idx]
       IN IF FileUnchanged(isUpdate, disk, file)
          THEN /\ UNCHANGED <<disk, writes, raised>>
               /\ pc' = AfterFileTask(idx)
               /\ UNCHANGED thrown
          ELSE \/ /\ WriteOk("STRUCTURE", file.path, file.content)
                  /\ pc' = AfterFileTask(idx)
                  /\ UNCHANGED <<raised, thrown>>
               \/ \* the write rejects: "Don't stop if a few files fail"
                  /\ WriteFails("STRUCTURE", file.path, file.content, "fileWrite")
                  /\ IF exitOnError("fileCreationTasks") THEN Fail("STRUCTURE")
                     ELSE pc' = AfterFileTask(idx) /\ UNCHANGED thrown
    /\ idx' = idx + 1
    /\ UNCHANGED <<serviceVars, fileChanges, recoverVars, setupVars, ctxVars, compileVars, docs, stageLog, calls>>

(***************************************************************************)
(* installPackages (task 'Installing dependencies')                        *)
(***************************************************************************)
MergedManifestDeclaredOnly(d, dependencies) ==
    ManifestContent(dependencies.dependencies, dependencies.devDependencies)

\* the manifest installPackages writes: the one on disk (a fresh one when it
\* is missing or not JSON) with the declared dependencies spread over it
MergedManifest(d, dependencies) ==
    LET parsed == IF IsFile(d, "package.json") THEN ParseManifest(d["package.json"])
                  ELSE Null
        packageJson == IF parsed = Null THEN ManifestContent(EmptyMap, EmptyMap)
                       ELSE parsed
    IN ManifestContent(Spread(packageJson.dependencies, dependencies.dependencies),
                       Spread(packageJson.devDependencies, dependencies.devDependencies))

InstallTask ==
    /\ pc = "INSTALL"
    /\ Start("INSTALL")
    /\ LET manifest == MergedManifest(disk, projectStructure.dependencies)
       IN \/ \* package.json written, npm install succeeds
             /\ WriteOk("INSTALL", "package.json", manifest)
             /\ Called("install")
             /\ pc' = NextTask("INSTALL", isUpdate)
             /\ UNCHANGED <<raised, thrown>>
          \/ \* package.json written, npm install fails
             /\ WriteOk("INSTALL", "package.json", manifest)
             /\ Called("install")
             /\ Raise("npm")
             /\ Fail("INSTALL")
          \/ \* the write of package.json rejects
             /\ WriteFails("INSTALL", "package.json", manifest, "manifestWrite")
             /\ Fail("INSTALL")
             /\ UNCHANGED calls
    /\ UNCHANGED <<serviceVars, fileChanges, recoverVars, setupVars, ctxVars, idx, compileVars, docs>>

(***************************************************************************)
(* task 'Compiling project'                                                *)
(***************************************************************************)
SkipFixNoCeiling(result) ==
    \/ ~result.hasErrors
    \/ Len(result.errors) = 0

\* "Check if errors are too complex or lengthy to fix"
SkipFix(result) ==
    \/ ~result.hasErrors
    \/ Len(result.errors) = 0
    \/ (result.errors[1] > 0 /\ result.errors[1] > CEILING)

\* first compileProject and the decision that follows it
CompileTask ==
    /\ pc = "COMPILE"
    /\ Start("COMPILE")
    /\ Called("compile")
    /\ \E result \in compileProject :
          /\ compilationResult' = result
          /\ pc' = IF result.success \/ SkipFix(result)
                   THEN NextTask("COMPILE", isUpdate)
                   ELSE "FIX"
    /\ UNCHANGED <<serviceVars, fileChanges, recoverVars, setupVars, disk, ctxVars, idx, recompilationResult, fixedFiles,
                   fixArgs, docs, writes, raised, thrown>>

AfterFixUncaught(result) ==
    IF result.kind = "null" \/ (result.kind = "array" /\ Len(result.files) = 0)
    THEN NextTask("COMPILE", isUpdate)
    ELSE IF result.kind = "object"
    THEN "FAILED"
    ELSE "FIX_WRITE"

AfterFixSkipWrites(result) ==
    IF result.kind = "null" \/ (result.kind = "array" /\ Len(result.files) = 0)
    THEN NextTask("COMPILE", isUpdate)
    ELSE IF result.kind = "object"
    THEN NextTask("COMPILE", isUpdate)
    ELSE "RECOMPILE"

\* the position after llmService.fixCompilationErrors returned result
AfterFix(result) ==
    IF result.kind = "null" \/ (result.kind = "array" /\ Len(result.files) = 0)
    THEN NextTask("COMPILE", isUpdate)  \* 'No fixes provided by the LLM'
    ELSE IF result.kind = "object"
    THEN NextTask("COMPILE", isUpdate)  \* for..of over a non-iterable throws, caught
    ELSE "FIX_WRITE"

\* llmService.fixCompilationErrors(compilationResult.errors, ctx.projectStructure)
FixCall ==
    /\ pc = "FIX"
    /\ Called("fix")
    /\ fixArgs' = [errors |-> compilationResult.errors, projectStructure |-> projectStructure]
    /\ \/ \E result \in FixResults :
            /\ fixedFiles' = result
            /\ pc' = AfterFix(result)
            /\ IF result.kind = "object" THEN Raise("fixShape") ELSE UNCHANGED raised
       \/ \* the provider raises: catch (fixError)
          /\ Raise("fix")
          /\ pc' = NextTask("COMPILE", isUpdate)
          /\ UNCHANGED fixedFiles
    /\ idx' = 1
    /\ UNCHANGED <<serviceVars, fileChanges, recoverVars, setupVars, disk, ctxVars, compilationResult, recompilationResult, docs,
                   stageLog, writes, thrown>>

\* "Update the files with fixed content": one write per step
FixWrite ==
    /\ pc = "FIX_WRITE"
    /\ LET file == fixedFiles.files[idx]
       IN \/ /\ WriteOk("FIX", file.path, file.content)
             /\ idx' = idx + 1
             /\ pc' = IF idx >= Len(fixedFiles.files) THEN "RECOMPILE" ELSE "FIX_WRITE"
             /\ UNCHANGED raised
          \/ \* the write rejects: catch (fixError)
             /\ WriteFails("FIX", file.path, file.content, "fixWrite")
             /\ pc' = NextTask("COMPILE", isUpdate)
             /\ UNCHANGED idx
    /\ UNCHANGED <<serviceVars, fileChanges, recoverVars, setupVars, ctxVars, compileVars, docs, stageLog, calls, thrown>>

AfterRecompileRetry(result) ==
    IF result.success THEN NextTask("COMPILE", isUpdate) ELSE "FIX"

\* the position after the second compileProject
AfterRecompile(result) == NextTask("COMPILE", isUpdate)

\* "Try compiling again"
Recompile ==
    /\ pc = "RECOMPILE"
    /\ Called("compile")
    /\ \E result \in compileProject :
          /\ recompilationResult' = result
          /\ pc' = AfterRecompile(result)
    /\ UNCHANGED <<serviceVars, fileChanges, recoverVars, setupVars, disk, ctxVars, idx, compilationResult, fixedFiles, fixArgs,
                   docs, stageLog, writes, raised, thrown>>

(***************************************************************************)
(* tasks 'Updating documentation' and 'Suggesting enhancements'            *)
(***************************************************************************)
\* llmService.generateDocumentation and the write of README.md
DocumentTask ==
    /\ pc = "DOCUMENT"
    /\ Start("DOCUMENT")
    /\ Called("docs")
    /\ \/ \E result \in DocsResults :
            LET readme == IF result = Malformed THEN Text("undefined") ELSE result.readme
            IN /\ docs' = result
               /\ \/ /\ WriteOk("DOCUMENT", "README.md", readme)
                     /\ IF result = Malformed
                        THEN \* for (const doc of undefined) throws
                             Raise("docsShape") /\ Fail("DOCUMENT")
                        ELSE /\ pc' = IF Len(result.additional) = 0
                                      THEN NextTask("DOCUMENT", isUpdate)
                                      ELSE "DOCUMENT_FILES"
                             /\ UNCHANGED <<raised, thrown>>
                  \/ \* the write of README.md rejects
                     /\ WriteFails("DOCUMENT", "README.md", readme, "docsWrite")
                     /\ Fail("DOCUMENT")
       \/ \* the provider raises
          /\ Raise("docs")
          /\ Fail("DOCUMENT")
          /\ UNCHANGED <<docs, disk, writes>>
    /\ idx' = 1
    /\ UNCHANGED <<serviceVars, fileChanges, recoverVars, setupVars, ctxVars, compileVars>>

\* "Create additional documentation files": one write per step
DocumentFile ==
    /\ pc = "DOCUMENT_FILES"
    /\ LET doc == docs.additional[idx]
       IN \/ /\ WriteOk("DOCUMENT", doc.path, doc.content)
             /\ idx' = idx + 1
             /\ pc' = IF idx >= Len(docs.additional) THEN NextTask("DOCUMENT", isUpdate)
                      ELSE "DOCUMENT_FILES"
             /\ UNCHANGED <<raised, thrown>>
          \/ /\ WriteFails("DOCUMENT", doc.path, doc.content, "docsWrite")
             /\ Fail("DOCUMENT")
             /\ UNCHANGED idx
    /\ UNCHANGED <<serviceVars, fileChanges, recoverVars, setupVars, ctxVars, compileVars, docs, stageLog, calls>>

\* llmService.generateEnhancementSuggestions and the write of ENHANCEMENTS.md
EnhanceTask ==
    /\ pc = "ENHANCE"
    /\ Start("ENHANCE")
    /\ Called("enhance")
    /\ \/ /\ WriteOk("ENHANCE", "ENHANCEMENTS.md", Text("x"))
          /\ pc' = NextTask("ENHANCE", isUpdate)
          /\ UNCHANGED <<raised, thrown>>
       \/ \* the write rejects
          /\ WriteFails("ENHANCE", "ENHANCEMENTS.md", Text("x"), "enhanceWrite")
          /\ Fail("ENHANCE")
       \/ \* the provider raises
          /\ Raise("enhance")
          /\ Fail("ENHANCE")
          /\ UNCHANGED <<disk, writes>>
    /\ UNCHANGED <<serviceVars, fileChanges, recoverVars, setupVars, ctxVars, idx, compileVars, docs>>

Next ==
    \/ LoadExisting
    \/ PlanTask
    \/ StructureTask
    \/ CreateDirectory
    \/ StartFileTasks
    \/ FileTask
    \/ InstallTask
    \/ CompileTask
    \/ FixCall
    \/ FixWrite
    \/ Recompile
    \/ DocumentTask
    \/ DocumentFile
    \/ EnhanceTask

Spec == Init /\ [][Next]_vars

\* every awaited call settles and the event loop then runs the continuation:
\* a step that can be taken is eventually taken
SpecFair == Spec /\ WF_vars(Next)

(***************************************************************************)
(* The reconciler on its own: merge applied to arbitrary bounded inputs    *)
(***************************************************************************)
MaxMergeDirs == 2   \* directories in each input of the reconciler, checked on its own

MergeDirs == {"src", "lib"}
MergeDepNames == {"d1", "d2"}

EmptyStructure ==
    [directories |-> <<>>, files |-> <<>>,
     dependencies |-> [dependencies |-> EmptyMap, devDependencies |-> EmptyMap]]

\* directories and dependency maps of the inputs: any list of directories
\* (repetitions included), any dependency map over MergeDepNames
MergeShapes ==
    [directories : SeqsUpTo(MergeDirs, MaxMergeDirs),
     dependencies : [dependencies : UNION {[ks -> Versions] : ks \in SUBSET MergeDepNames},
                     devDependencies : {EmptyMap, [k \in {"d1"} |-> "1"]}]]

\* the inputs of the reconciler: every list of files with an empty or a
\* fixed shape, and every shape with no file or one file
MergeStructures ==
    {[directories |-> shape.directories, files |-> f, dependencies |-> shape.dependencies] :
        f \in SeqsUpTo(ProjectFile, MaxMergeFiles),
        shape \in {[directories |-> <<>>, dependencies |-> EmptyStructure.dependencies],
                   [directories |-> <<"src">>,
                    dependencies |-> [dependencies |-> [k \in {"d1"} |-> "2"],
                                      devDependencies |-> [k \in {"d1"} |-> "1"]]]}}
    \cup
    {[directories |-> shape.directories, files |-> f, dependencies |-> shape.dependencies] :
        f \in {<<>>, <<[path |-> "a.ts", content |-> Text("x")]>>},
        shape \in MergeShapes}

InitMerge ==
    /\ isUpdate = TRUE
    /\ disk = [p \in DiskPaths |-> NoFile]
    /\ diskBefore = disk
    /\ fileChanges = Null
    /\ existingStructure \in MergeStructures
    /\ freshStructure \in MergeStructures
    /\ projectPlan = Null
    /\ projectStructure = Null
    /\ pc = "MERGE"
    /\ idx = 0
    /\ compilationResult = Null
    /\ recompilationResult = Null
    /\ fixedFiles = Null
    /\ fixArgs = Null
    /\ docs = Null
    /\ stageLog = <<>>
    /\ calls = NoCalls
    /\ writes = <<>>
    /\ raised = {}
    /\ thrown = ""
    /\ response = NoResponse
    /\ operation = ""
    /\ recovered = Null
    /\ modelName = "ollama"
    /\ apiKey = FALSE

\* projectStructure = await mergeProjectStructures(existingStructure, projectStructure)
Merge ==
    /\ pc = "MERGE"
    /\ projectStructure' = mergeProjectStructures(existingStructure, freshStructure)
    /\ pc' = "MERGED"
    /\ UNCHANGED <<serviceVars, fileChanges, recoverVars, setupVars, disk, projectPlan, freshStructure, idx, compileVars, docs,
                   stageLog, calls, writes, raised, thrown>>

NextMerge == Merge

SpecMerge == InitMerge /\ [][NextMerge]_vars

(***************************************************************************)
(* Structured-output recovery (BaseLLMService): texts are sequences of     *)
(* tokens, a token being one character of JSON syntax, one whitespace      *)
(* character, the triple backtick, or a run of word characters             *)
(***************************************************************************)
DQ == "\""           \* the double quote
BS == "\\"           \* the backslash
NL == "\n"           \* a line break
SP == " "            \* a blank
APOS == "'"          \* the single quote
FENCE == "FENCE"     \* the triple backtick

Whitespace == {SP, NL}

\* the keywords parseJsonFromText looks for when every strategy failed
Keywords == {"projectName", "description", "directories", "files", "readme",
             "issues", "suggestions"}

\* runs of word characters (\w+): a digit, a letter, the fence tag, the keywords
WordTokens == {"1", "a", "json"} \cup Keywords

IsWord(t) == t \in WordTokens

\* String.prototype.includes for a keyword
includes(text, word) == \E i \in DOMAIN text : text[i] = word

\* String.prototype.trim
RECURSIVE trim(_)
trim(s) ==
    IF s = <<>> THEN s
    ELSE IF Head(s) \in Whitespace THEN trim(Tail(s))
    ELSE IF s[Len(s)] \in Whitespace THEN trim(SubSeq(s, 1, Len(s) - 1))
    ELSE s

\* String.prototype.indexOf, 1-based; 0 when absent
indexOf(s, t) ==
    IF \E i \in DOMAIN s : s[i] = t
    THEN CHOOSE i \in DOMAIN s : s[i] = t /\ \A j \in 1..(i - 1) : s[j] # t
    ELSE 0

\* the first position from i on that holds no whitespace (Len(s) + 1 when none)
RECURSIVE SkipWs(_, _)
SkipWs(s, i) ==
    IF i <= Len(s) /\ s[i] \in Whitespace THEN SkipWs(s, i + 1) ELSE i

\* the token at position i, "" past the end
At(s, i) == IF i \in DOMAIN s THEN s[i] ELSE ""

\* the last position of the run of word tokens that holds position i
RECURSIVE RunEnd(_, _)
RunEnd(s, i) ==
    IF i + 1 <= Len(s) /\ IsWord(s[i + 1]) THEN RunEnd(s, i + 1) ELSE i

(***************************************************************************)
(* JSON.parse: a recursive-descent recogniser; each Parse operator takes   *)
(* the position where the construct starts and gives the position after    *)
(* it, 0 for a syntax error                                                *)
(***************************************************************************)
\* what may follow a backslash in a string: a quote, a backslash, and the
\* words that begin with an escape letter (\f, \r)
Escapable == {DQ, BS, "files", "readme"}

\* a string: from the opening quote to the closing one; a backslash with
\* what it escapes is content, a raw line break is an error
RECURSIVE ParseChars(_, _)
ParseChars(s, i) ==
    IF i > Len(s) THEN 0
    ELSE IF s[i] = DQ THEN i + 1
    ELSE IF s[i] = BS
         THEN IF At(s, i + 1) \in Escapable THEN ParseChars(s, i + 2) ELSE 0
    ELSE IF s[i] = NL THEN 0
    ELSE ParseChars(s, i + 1)

ParseString(s, i) == IF At(s, i) = DQ THEN ParseChars(s, i + 1) ELSE 0

\* a number: a run of digits
RECURSIVE ParseNumber(_, _)
ParseNumber(s, i) == IF At(s, i + 1) = "1" THEN ParseNumber(s, i + 1) ELSE i + 1

RECURSIVE ParseValue(_, _)
RECURSIVE ParseMembers(_, _)
RECURSIVE ParseElements(_, _)

\* "key": value, then a comma and more members, or the closing brace
ParseMembers(s, i) ==
    LET k == ParseString(s, SkipWs(s, i))
        c == IF k = 0 THEN 0 ELSE SkipWs(s, k)
        v == IF c = 0 \/ At(s, c) # ":" THEN 0 ELSE ParseValue(s, c + 1)
        e == IF v = 0 THEN 0 ELSE SkipWs(s, v)
    IN IF e = 0 THEN 0
       ELSE IF At(s, e) = "," THEN ParseMembers(s, e + 1)
       ELSE IF At(s, e) = "}" THEN e + 1
       ELSE 0

\* value, then a comma and more elements, or the closing bracket
ParseElements(s, i) ==
    LET v == ParseValue(s, i)
        e == IF v = 0 THEN 0 ELSE SkipWs(s, v)
    IN IF e = 0 THEN 0
       ELSE IF At(s, e) = "," THEN ParseElements(s, e + 1)
       ELSE IF At(s, e) = "]" THEN e + 1
       ELSE 0

ParseValue(s, i) ==
    LET j == SkipWs(s, i)
        t == At(s, j)
    IN IF t = "{"
       THEN IF At(s, SkipWs(s, j + 1)) = "}" THEN SkipWs(s, j + 1) + 1
            ELSE ParseMembers(s, j + 1)
       ELSE IF t = "["
       THEN IF At(s, SkipWs(s, j + 1)) = "]" THEN SkipWs(s, j + 1) + 1
            ELSE ParseElements(s, j + 1)
       ELSE IF t = DQ THEN ParseString(s, j)
       ELSE IF t = "1" THEN ParseNumber(s, j)
       ELSE 0

\* the text is one JSON value, whitespace around it allowed
IsJson(s) ==
    LET e == ParseValue(s, 1)
    IN e # 0 /\ SkipWs(s, e) = Len(s) + 1

\* the parsed value, given by its tokens without the whitespace between
\* them (whitespace inside strings is content)
RECURSIVE Canon(_, _, _)
Canon(s, i, inString) ==
    IF i > Len(s) THEN <<>>
    ELSE IF inString
         THEN IF s[i] = BS THEN <<s[i], At(s, i + 1)>> \o Canon(s, i + 2, TRUE)
              ELSE <<s[i]>> \o Canon(s, i + 1, s[i] # DQ)
    ELSE IF s[i] \in Whitespace THEN Canon(s, i + 1, FALSE)
    ELSE <<s[i]>> \o Canon(s, i + 1, s[i] = DQ)

SyntaxError == [ok |-> FALSE, value |-> <<>>]

\* JSON.parse: the value, or a SyntaxError
JSONparse(s) == IF IsJson(s) THEN [ok |-> TRUE, value |-> Canon(s, 1, FALSE)] ELSE SyntaxError

(***************************************************************************)
(* attemptToFixJson: the replacements, in the order of the code            *)
(***************************************************************************)
\* .replace(/^[^{[\r\n]*/, '')
RECURSIVE StripLeading(_)
StripLeading(s) ==
    IF s = <<>> \/ Head(s) \in {"{", "[", NL} THEN s ELSE StripLeading(Tail(s))

\* .replace(/[^}\]]*$/, '')
RECURSIVE StripTrailing(_)
StripTrailing(s) ==
    IF s = <<>> \/ s[Len(s)] \in {"}", "]"} THEN s
    ELSE StripTrailing(SubSeq(s, 1, Len(s) - 1))

\* .replace(/(\w+)'(\w+)/g, '$1\\"$2'): a single quote between two words
\* becomes \" ; a match takes the whole word after the quote, so the next
\* match starts after that word (last: the first position not yet matched)
RECURSIVE PreserveContractions(_, _, _)
PreserveContractions(s, i, last) ==
    IF i > Len(s) THEN <<>>
    ELSE IF /\ s[i] = APOS
            /\ i - 1 >= last
            /\ IsWord(At(s, i - 1))
            /\ IsWord(At(s, i + 1))
         THEN <<BS, DQ>> \o PreserveContractions(s, i + 1, RunEnd(s, i + 1) + 1)
         ELSE <<s[i]>> \o PreserveContractions(s, i + 1, last)

\* .replace(/'/g, '"')
SingleToDouble(s) == [i \in DOMAIN s |-> IF s[i] = APOS THEN DQ ELSE s[i]]

\* the double quotes of s from position i on
QuotesFrom(s, i) == Cardinality({j \in DOMAIN s : j >= i /\ s[j] = DQ})

\* .replace(/(?<!\\)"(?=[^"]*"[^"]*(?:"[^"]*"[^"]*)*$)/g, '\\"'): a double
\* quote that no backslash precedes and that an odd number of double quotes
\* follows becomes \"
RECURSIVE EscapeQuotes(_, _)
EscapeQuotes(s, i) ==
    IF i > Len(s) THEN <<>>
    ELSE IF /\ s[i] = DQ
            /\ At(s, i - 1) # BS
            /\ QuotesFrom(s, i + 1) % 2 = 1
         THEN <<BS, DQ>> \o EscapeQuotes(s, i + 1)
         ELSE <<s[i]>> \o EscapeQuotes(s, i + 1)

\* .replace(/}(\s*){/g, '},\n$1{') and .replace(/](\s*)\[/g, '],\n$1['):
\* a comma and a line break after a closer that an opener follows
RECURSIVE MissingCommas(_, _, _, _)
MissingCommas(s, i, closer, opener) ==
    IF i > Len(s) THEN <<>>
    ELSE IF s[i] = closer /\ At(s, SkipWs(s, i + 1)) = opener
         THEN <<closer, ",", NL>> \o MissingCommas(s, i + 1, closer, opener)
         ELSE <<s[i]>> \o MissingCommas(s, i + 1, closer, opener)

\* .replace(/,(\s*[}\]])/g, '$1'): a comma before a closer is dropped
RECURSIVE TrailingCommas(_, _)
TrailingCommas(s, i) ==
    IF i > Len(s) THEN <<>>
    ELSE IF s[i] = "," /\ At(s, SkipWs(s, i + 1)) \in {"}", "]"}
         THEN TrailingCommas(s, i + 1)
         ELSE <<s[i]>> \o TrailingCommas(s, i + 1)

\* the last position before i that holds no whitespace (0 when none)
RECURSIVE SkipWsBack(_, _)
SkipWsBack(s, i) ==
    IF i >= 1 /\ s[i] \in Whitespace THEN SkipWsBack(s, i - 1) ELSE i

\* .replace(/([{,]\s*)([a-zA-Z0-9_$]+)(\s*:)/g, '$1"$2"$3'): a word between
\* an opening brace or a comma and a colon is put in double quotes
RECURSIVE QuotePropertyNames(_, _)
QuotePropertyNames(s, i) ==
    IF i > Len(s) THEN <<>>
    ELSE IF /\ IsWord(s[i])
            /\ ~IsWord(At(s, i - 1))
            /\ At(s, SkipWsBack(s, i - 1)) \in {"{", ","}
            /\ At(s, SkipWs(s, RunEnd(s, i) + 1)) = ":"
         THEN <<DQ>> \o SubSeq(s, i, RunEnd(s, i)) \o <<DQ>>
              \o QuotePropertyNames(s, RunEnd(s, i) + 1)
         ELSE <<s[i]>> \o QuotePropertyNames(s, i + 1)

Count(s, t) == Cardinality({i \in DOMAIN s : s[i] = t})

\* n copies of t
Repeat(t, n) == [i \in 1..n |-> t]

\* while (count < 0 && fixed.endsWith(closer)) drop the last character
RECURSIVE DropExtra(_, _, _)
DropExtra(s, closer, count) ==
    IF count < 0 /\ s # <<>> /\ s[Len(s)] = closer
    THEN DropExtra(SubSeq(s, 1, Len(s) - 1), closer, count + 1)
    ELSE s

\* the balance step: close what is open, then drop extra closers at the end
Balance(fixed) ==
    LET braceCount == Count(fixed, "{") - Count(fixed, "}")
        bracketCount == Count(fixed, "[") - Count(fixed, "]")
        closed == fixed
                  \o Repeat("}", IF braceCount > 0 THEN braceCount ELSE 0)
                  \o Repeat("]", IF bracketCount > 0 THEN bracketCount ELSE 0)
    IN DropExtra(DropExtra(closed, "}", braceCount), "]", bracketCount)

attemptToFixJson(text) ==
    LET stripped == StripTrailing(StripLeading(text))
        quoted == SingleToDouble(PreserveContractions(stripped, 1, 1))
        escaped == EscapeQuotes(quoted, 1)
        commas == MissingCommas(MissingCommas(escaped, 1, "}", "{"), 1, "]", "[")
        named == QuotePropertyNames(TrailingCommas(commas, 1), 1)
    IN Balance(named)

(***************************************************************************)
(* parseJsonFromText                                                       *)
(***************************************************************************)
\* the start of the first object or array: Math.min of the two positions
\* when both exist (1-based; 0 when the text has neither)
StartPos(cleanedText) ==
    LET firstBracePos == indexOf(cleanedText, "{")
        firstBracketPos == indexOf(cleanedText, "[")
    IN IF firstBracePos > 0 /\ firstBracketPos > 0
       THEN IF firstBracePos < firstBracketPos THEN firstBracePos ELSE firstBracketPos
       ELSE IF firstBracePos > 0 THEN firstBracePos
       ELSE firstBracketPos

\* text.trim(), cut to start at the first brace or bracket
Cleaned(text) ==
    LET trimmed == trim(text)
        startPos == StartPos(trimmed)
    IN IF startPos > 1 THEN SubSeq(trimmed, startPos, Len(trimmed)) ELSE trimmed

\* match[1] of /```(?:json)?\s*([\s\S]*?)\s*```/: what stands between the
\* first fence (and its tag) and the next one, whitespace at both ends
\* excluded; empty when the text has no two fences
CodeBlock(s) ==
    LET open == indexOf(s, FENCE)
        tagged == IF At(s, open + 1) = "json" THEN open + 2 ELSE open + 1
        from == SkipWs(s, tagged)
        closers == {i \in DOMAIN s : i >= from /\ s[i] = FENCE}
        close == CHOOSE i \in closers : \A j \in closers : i <= j
    IN IF open = 0 \/ closers = {} THEN <<>>
       ELSE SubSeq(s, from, SkipWsBack(s, close - 1))

\* the position where the first object of s closes: the first position
\* from i on where braceCount is back to 0 (0 when it never is)
RECURSIVE ObjectEnd(_, _, _)
ObjectEnd(s, i, braceCount) ==
    IF i > Len(s) THEN 0
    ELSE IF s[i] = "{" THEN ObjectEnd(s, i + 1, braceCount + 1)
    ELSE IF s[i] = "}"
         THEN IF braceCount - 1 = 0 THEN i ELSE ObjectEnd(s, i + 1, braceCount - 1)
    ELSE ObjectEnd(s, i + 1, braceCount)

\* JSON.parse(x), and when that throws JSON.parse(attemptToFixJson(x))
ParseOrFix(x) ==
    IF JSONparse(x).ok THEN JSONparse(x) ELSE JSONparse(attemptToFixJson(x))

\* "Extract JSON from code blocks"
FromCodeBlock(cleanedText) ==
    IF CodeBlock(cleanedText) = <<>> THEN SyntaxError
    ELSE ParseOrFix(CodeBlock(cleanedText))

\* "Fallback: Try to find and extract valid JSON objects"
FromFirstObject(cleanedText) ==
    LET startIndex == indexOf(cleanedText, "{")
        end == IF startIndex = 0 THEN 0 ELSE ObjectEnd(cleanedText, startIndex, 0)
    IN IF end = 0 THEN SyntaxError
       ELSE ParseOrFix(SubSeq(cleanedText, startIndex, end))

\* the strategies in the order of the code; the first that parses gives
\* the result, each failure is caught
Strategies(text) ==
    LET cleanedText == Cleaned(text)
    IN IF JSONparse(cleanedText).ok THEN JSONparse(cleanedText)
       ELSE IF FromCodeBlock(cleanedText).ok THEN FromCodeBlock(cleanedText)
       ELSE IF JSONparse(attemptToFixJson(cleanedText)).ok
            THEN JSONparse(attemptToFixJson(cleanedText))
       ELSE FromFirstObject(cleanedText)

\* what parseJsonFromText gives back: a parsed value, or one of the defaults
Parsed(value) == [kind |-> "parsed", value |-> value]
Default(kind) == [kind |-> kind, value |-> <<>>]

FallbackRaises(text) == Default("raised")

FallbackStructureFirst(text) ==
    IF includes(text, "directories") \/ includes(text, "files")
    THEN Default("structure")
    ELSE IF includes(text, "projectName") \/ includes(text, "description")
    THEN Default("plan")
    ELSE IF includes(text, "readme") THEN Default("documentation")
    ELSE IF includes(text, "issues") \/ includes(text, "suggestions")
    THEN Default("scan")
    ELSE Default("structure")

\* "If all parsing attempts fail, return appropriate default structure"
Fallback(text) ==
    IF includes(text, "projectName") \/ includes(text, "description")
    THEN Default("plan")
    ELSE IF includes(text, "directories") \/ includes(text, "files")
    THEN Default("structure")
    ELSE IF includes(text, "readme") THEN Default("documentation")
    ELSE IF includes(text, "issues") \/ includes(text, "suggestions")
    THEN Default("scan")
    ELSE Default("structure")

parseJsonFromText(text) ==
    IF Strategies(text).ok THEN Parsed(Strategies(text).value) ELSE Fallback(text)

\* the top-level property names of each default (getDefaultProjectPlan,
\* getDefaultProjectStructure, getDefaultDocumentation, the literal of scan)
DefaultKeys(kind) ==
    IF kind = "plan"
    THEN {"projectName", "description", "technologies", "architecture",
          "components", "dataModels"}
    ELSE IF kind = "structure" THEN {"directories", "files", "dependencies"}
    ELSE IF kind = "documentation" THEN {"readme", "additional"}
    ELSE IF kind = "scan" THEN {"issues", "suggestions"}
    ELSE {}

\* the top-level property names of a parsed object (empty for other values)
RECURSIVE PropertyNames(_, _, _)
PropertyNames(s, i, depth) ==
    IF i > Len(s) THEN {}
    ELSE IF s[i] = DQ
         THEN LET e == ParseChars(s, i + 1)
              IN (IF depth = 1 /\ At(s, e) = ":" THEN {SubSeq(s, i + 1, e - 2)} ELSE {})
                 \cup PropertyNames(s, e, depth)
    ELSE IF s[i] \in {"{", "["} THEN PropertyNames(s, i + 1, depth + 1)
    ELSE IF s[i] \in {"}", "]"} THEN PropertyNames(s, i + 1, depth - 1)
    ELSE PropertyNames(s, i + 1, depth)

IsArray(r) == r.kind = "parsed" /\ Head(r.value) = "["

IsObject(r) == r.kind # "parsed" \/ Head(r.value) = "{"

KeysOf(r) ==
    IF r.kind # "parsed" THEN {<<k>> : k \in DefaultKeys(r.kind)}
    ELSE IF Head(r.value) = "{" THEN PropertyNames(r.value, 1, 0)
    ELSE {}

\* the provider operations that recover structured output; each returns
\* parseJsonFromText(text) as it is
Operations == {"plan", "structure", "fix", "docs", "scan"}

ProviderResult(op, text) == parseJsonFromText(text)

(***************************************************************************)
(* Recovery on its own: parseJsonFromText applied to bounded texts         *)
(***************************************************************************)
MaxTextLen == 3     \* tokens of an arbitrary response text
MaxKeywords == 2    \* keywords and words of a response text without JSON

Tokens == {"{", "}", "[", "]", ",", ":", DQ, APOS, BS, SP, NL, FENCE, "a", "1"}

\* valid JSON objects and arrays, with and without string values
JsonCores ==
    {<<"[", "1", "]">>,
     <<"[", "1", ",", SP, "1", "]">>,
     <<"[", DQ, "a", DQ, "]">>,
     <<"{", "}">>,
     <<"{", DQ, "a", DQ, ":", "1", "}">>,
     <<"{", DQ, "a", DQ, ":", SP, DQ, "a", SP, "a", DQ, "}">>,
     <<"{", DQ, "files", DQ, ":", "[", "]", "}">>,
     <<"{", DQ, "a", DQ, ":", "{", DQ, "a", DQ, ":", "1", "}", "}">>,
     <<"[", "{", DQ, "a", DQ, ":", "1", "}", ",", "{", DQ, "a", DQ, ":", "1", "}", "]">>}

\* what may stand around the JSON: nothing, prose before, prose after,
\* prose on both sides, a fence with or without its tag, a fence in prose
Wrappers ==
    {[before |-> <<>>, after |-> <<>>],
     [before |-> <<"a", SP>>, after |-> <<>>],
     [before |-> <<>>, after |-> <<SP, "a">>],
     [before |-> <<"a", NL>>, after |-> <<NL, "a">>],
     [before |-> <<FENCE, "json", NL>>, after |-> <<NL, FENCE>>],
     [before |-> <<FENCE, NL>>, after |-> <<NL, FENCE>>],
     [before |-> <<"a", NL, FENCE, "json", NL>>, after |-> <<NL, FENCE, NL, "a">>]}

WrappedTexts ==
    {[text |-> w.before \o core \o w.after, kind |-> "wrapped", expected |-> core] :
        w \in Wrappers, core \in JsonCores}

\* JSON with one repairable defect, and the repaired JSON
Defect(name, text, repaired) == [text |-> text, kind |-> name, expected |-> repaired]

DefectTexts ==
    {Defect("unescaped quote",
            <<"{", DQ, "a", DQ, ":", DQ, "a", DQ, "a", DQ, "}">>,
            <<"{", DQ, "a", DQ, ":", DQ, "a", BS, DQ, "a", DQ, "}">>),
     Defect("trailing comma",
            <<"[", "1", ",", "]">>,
            <<"[", "1", "]">>),
     Defect("trailing comma",
            <<"{", DQ, "a", DQ, ":", "1", ",", "}">>,
            <<"{", DQ, "a", DQ, ":", "1", "}">>),
     Defect("single quotes",
            <<"{", APOS, "a", APOS, ":", APOS, "a", APOS, "}">>,
            <<"{", DQ, "a", DQ, ":", DQ, "a", DQ, "}">>),
     Defect("missing comma",
            <<"[", "{", "}", "{", "}", "]">>,
            <<"[", "{", "}", ",", "{", "}", "]">>),
     Defect("missing comma",
            <<"[", "{", DQ, "a", DQ, ":", "1", "}", "{", DQ, "a", DQ, ":", "1", "}", "]">>,
            <<"[", "{", DQ, "a", DQ, ":", "1", "}", ",", "{", DQ, "a", DQ, ":", "1", "}", "]">>),
     Defect("extra closer",
            <<"[", "1", "]", "]">>,
            <<"[", "1", "]">>),
     Defect("extra closer",
            <<"{", DQ, "a", DQ, ":", "1", "}", "}">>,
            <<"{", DQ, "a", DQ, ":", "1", "}">>)}

\* texts without JSON: keywords and words, then nothing or a broken start
KeywordTexts ==
    {[text |-> words \o tail, kind |-> "any", expected |-> <<>>] :
        words \in SeqsUpTo(Keywords \cup {"a"}, MaxKeywords),
        tail \in {<<>>, <<SP, "{">>, <<SP, "[", "1">>}}

AnyTexts ==
    {[text |-> t, kind |-> "any", expected |-> <<>>] : t \in SeqsUpTo(Tokens, MaxTextLen)}

Responses == AnyTexts \cup KeywordTexts \cup WrappedTexts \cup DefectTexts

InitRecover ==
    /\ response \in Responses
    /\ modelName = "ollama"
    /\ apiKey = FALSE
    /\ operation = ""
    /\ recovered = Null
    /\ isUpdate = FALSE
    /\ disk = [p \in DiskPaths |-> NoFile]
    /\ diskBefore = disk
    /\ fileChanges = Null
    /\ existingStructure = Null
    /\ freshStructure = Null
    /\ projectPlan = Null
    /\ projectStructure = Null
    /\ pc = "RECOVER"
    /\ idx = 0
    /\ compilationResult = Null
    /\ recompilationResult = Null
    /\ fixedFiles = Null
    /\ fixArgs = Null
    /\ docs = Null
    /\ stageLog = <<>>
    /\ calls = NoCalls
    /\ writes = <<>>
    /\ raised = {}
    /\ thrown = ""

\* return this.parseJsonFromText(text), in one of the provider operations
Recover ==
    /\ pc = "RECOVER"
    /\ \E op \in Operations :
        /\ operation' = op
        /\ recovered' = ProviderResult(op, response.text)
    /\ pc' = "RECOVERED"
    /\ UNCHANGED <<serviceVars, fileChanges, response, setupVars, disk, ctxVars, idx, compileVars, docs,
                   stageLog, calls, writes, raised, thrown>>

NextRecover == Recover

SpecRecover == InitRecover /\ [][NextRecover]_vars

(***************************************************************************)
(* The repair transform on its own: attemptToFixJson applied to a text,    *)
(* and again to its own output                                             *)
(***************************************************************************)
Fixed(text) == [kind |-> "fixed", value |-> text]

InitRepair ==
    /\ response \in Responses
    /\ modelName = "ollama"
    /\ apiKey = FALSE
    /\ operation = ""
    /\ recovered = Null
    /\ isUpdate = FALSE
    /\ disk = [p \in DiskPaths |-> NoFile]
    /\ diskBefore = disk
    /\ fileChanges = Null
    /\ existingStructure = Null
    /\ freshStructure = Null
    /\ projectPlan = Null
    /\ projectStructure = Null
    /\ pc = "REPAIR"
    /\ idx = 0
    /\ compilationResult = Null
    /\ recompilationResult = Null
    /\ fixedFiles = Null
    /\ fixArgs = Null
    /\ docs = Null
    /\ stageLog = <<>>
    /\ calls = NoCalls
    /\ writes = <<>>
    /\ raised = {}
    /\ thrown = ""

\* const fixedJson = this.attemptToFixJson(x): x is the response text the
\* first time, the previous output the second time (idx counts the calls)
Repair ==
    /\ pc = "REPAIR"
    /\ recovered' = Fixed(attemptToFixJson(IF idx = 0 THEN response.text
                                                      ELSE recovered.value))
    /\ idx' = idx + 1
    /\ pc' = IF idx = 0 THEN "REPAIR" ELSE "REPAIRED"
    /\ UNCHANGED <<serviceVars, fileChanges, response, operation, setupVars, disk, ctxVars, compileVars, docs,
                   stageLog, calls, writes, raised, thrown>>

NextRepair == Repair

SpecRepair == InitRepair /\ [][NextRepair]_vars

(***************************************************************************)
(* The start of a run, from the creation of the provider adapter           *)
(* (LLMServiceFactory.createService, the first statement of                *)
(* generateProject) to the structure task                                  *)
(***************************************************************************)
Models == {"gemini", "azure", "groq", "ollama"}

CredentialRequiredNever(model) == FALSE

\* if (!apiKey && modelName !== 'ollama'), and the same test in the
\* constructor of BaseLLMService
CredentialRequired(model) == model # "ollama"

InitCreate ==
    /\ modelName \in Models \cup {"other"}
    /\ apiKey \in BOOLEAN
    /\ isUpdate \in BOOLEAN
    /\ disk \in InitDisks
    /\ diskBefore = disk
    /\ fileChanges = Null
    /\ existingStructure = Null
    /\ freshStructure = Null
    /\ projectPlan = Null
    /\ projectStructure = Null
    /\ pc = "CREATE"
    /\ idx = 0
    /\ compilationResult = Null
    /\ recompilationResult = Null
    /\ fixedFiles = Null
    /\ fixArgs = Null
    /\ docs = Null
    /\ stageLog = <<>>
    /\ calls = NoCalls
    /\ writes = <<>>
    /\ raised = {}
    /\ thrown = ""
    /\ response = NoResponse
    /\ operation = ""
    /\ recovered = Null

\* const llmService = LLMServiceFactory.createService(modelName)
CreateService ==
    /\ pc = "CREATE"
    /\ IF ~apiKey /\ CredentialRequired(modelName)
       THEN \* API key for modelName not found in environment variables
            /\ Raise("credential")
            /\ pc' = "FAILED"
            /\ thrown' = "CREATE"
       ELSE IF modelName \notin Models
       THEN \* Unknown model
            /\ Raise("unknownModel")
            /\ pc' = "FAILED"
            /\ thrown' = "CREATE"
       ELSE \/ /\ pc' = "INIT"
               /\ UNCHANGED <<raised, thrown>>
            \/ \* the constructor of AzureService finds no endpoint or deployment
               /\ modelName = "azure"
               /\ Raise("azureConfig")
               /\ pc' = "FAILED"
               /\ thrown' = "CREATE"
    /\ UNCHANGED <<serviceVars, fileChanges, recoverVars, setupVars, disk, ctxVars, idx, compileVars, docs,
                   stageLog, calls, writes>>

\* the creation of the adapter and what follows it up to the second stage
NextCreate ==
    \/ CreateService
    \/ LoadExisting
    \/ PlanTask
    \/ StructureTask

SpecCreate == InitCreate /\ [][NextCreate]_vars

(***************************************************************************)
(* LLMServiceFactory.updateProject: the changes from the existing          *)
(* structure to the provider's, applied to the project directory           *)
(***************************************************************************)
MaxApplyFiles == 2  \* files in the existing and in the updated structure

ChangeContents == TextContents \cup {Text("")}

ChangedFile == [path : SrcPaths, content : ChangeContents]

\* new Map(files.map(file => [file.path, file.content])).get(p)
MapGet(files, p) ==
    LET last == CHOOSE i \in DOMAIN files :
                    /\ files[i].path = p
                    /\ \A j \in DOMAIN files : files[j].path = p => j <= i
    IN files[last].content

\* the keys of the map, in insertion order
RECURSIVE MapKeys(_, _)
MapKeys(files, seen) ==
    IF files = <<>> THEN <<>>
    ELSE IF Head(files).path \in seen THEN MapKeys(Tail(files), seen)
    ELSE <<Head(files).path>> \o MapKeys(Tail(files), seen \cup {Head(files).path})

\* "Find added or modified files"
RECURSIVE AddedOrModified(_, _)
AddedOrModified(existingFiles, files) ==
    IF files = <<>> THEN <<>>
    ELSE LET file == Head(files)
             rest == AddedOrModified(existingFiles, Tail(files))
         IN IF file.path \notin PathsOf(existingFiles)
            THEN <<[path |-> file.path, type |-> "add", content |-> file.content]>> \o rest
            ELSE IF MapGet(existingFiles, file.path) # file.content
            THEN <<[path |-> file.path, type |-> "modify", content |-> file.content]>> \o rest
            ELSE rest

\* "Find deleted files (if any)"
RECURSIVE Deleted(_, _)
Deleted(existingPaths, updatedFilePaths) ==
    IF existingPaths = <<>> THEN <<>>
    ELSE IF Head(existingPaths) \notin updatedFilePaths
    THEN <<[path |-> Head(existingPaths), type |-> "delete"]>>
         \o Deleted(Tail(existingPaths), updatedFilePaths)
    ELSE Deleted(Tail(existingPaths), updatedFilePaths)

compareStructuresForChanges(existing, updated) ==
    AddedOrModified(existing.files, updated.files)
    \o Deleted(MapKeys(existing.files, {}), PathsOf(updated.files))

\* !change.content
NoContent(change) == change.content = Text("")

\* the structures of the update: files with unique paths
ApplyStructures ==
    {[directories |-> <<>>, files |-> f,
      dependencies |-> [dependencies |-> EmptyMap, devDependencies |-> EmptyMap]] :
        f \in {g \in SeqsUpTo(ChangedFile, MaxApplyFiles) :
                 \A i, j \in DOMAIN g : g[i].path = g[j].path => i = j}}

\* the directory that holds exactly the files of a structure
DirectoryOf(structure) ==
    [p \in DiskPaths |-> IF p \in PathsOf(structure.files)
                         THEN MapGet(structure.files, p) ELSE NoFile]

InitApply ==
    /\ existingStructure \in ApplyStructures
    /\ freshStructure \in ApplyStructures
    /\ disk = DirectoryOf(existingStructure)
    /\ diskBefore = disk
    /\ fileChanges = Null
    /\ isUpdate = TRUE
    /\ projectPlan = Null
    /\ projectStructure = Null
    /\ pc = "CHANGES"
    /\ idx = 0
    /\ compilationResult = Null
    /\ recompilationResult = Null
    /\ fixedFiles = Null
    /\ fixArgs = Null
    /\ docs = Null
    /\ stageLog = <<>>
    /\ calls = NoCalls
    /\ writes = <<>>
    /\ raised = {}
    /\ thrown = ""
    /\ response = NoResponse
    /\ operation = ""
    /\ recovered = Null
    /\ modelName = "ollama"
    /\ apiKey = FALSE

\* the position after change number i of fileChanges was handled
AfterChange(changes, i) == IF i >= Len(changes) THEN "APPLIED" ELSE "APPLY"

\* const fileChanges = await generateFileChanges(service, updatePrompt, options),
\* freshStructure being the provider's updatedStructure
GenerateFileChanges ==
    /\ pc = "CHANGES"
    /\ fileChanges' = compareStructuresForChanges(existingStructure, freshStructure)
    /\ pc' = AfterChange(fileChanges', 0)
    /\ idx' = 1
    /\ UNCHANGED <<serviceVars, recoverVars, setupVars, disk, ctxVars, compileVars, docs,
                   stageLog, calls, writes, raised, thrown>>

\* one turn of the loop of applyFileChanges
ApplyChange ==
    /\ pc = "APPLY"
    /\ LET change == fileChanges[idx]
       IN IF change.type \in {"add", "modify"}
          THEN IF NoContent(change)
               THEN \* 'No content provided': continue
                    /\ pc' = AfterChange(fileChanges, idx)
                    /\ idx' = idx + 1
                    /\ UNCHANGED <<disk, writes, raised, thrown>>
               ELSE \/ /\ WriteOk("APPLY", change.path, change.content)
                       /\ pc' = AfterChange(fileChanges, idx)
                       /\ idx' = idx + 1
                       /\ UNCHANGED <<raised, thrown>>
                    \/ \* the write rejects: applyFileChanges rethrows
                       /\ WriteFails("APPLY", change.path, change.content, "applyWrite")
                       /\ pc' = "FAILED"
                       /\ thrown' = "APPLY"
                       /\ UNCHANGED idx
          ELSE IF fileExists(disk, change.path)
               THEN \/ \* deletePath
                       /\ disk' = [disk EXCEPT ![change.path] = NoFile]
                       /\ pc' = AfterChange(fileChanges, idx)
                       /\ idx' = idx + 1
                       /\ UNCHANGED <<writes, raised, thrown>>
                    \/ \* deletePath rejects
                       /\ Raise("applyDelete")
                       /\ pc' = "FAILED"
                       /\ thrown' = "APPLY"
                       /\ UNCHANGED <<disk, writes, idx>>
               ELSE /\ pc' = AfterChange(fileChanges, idx)
                    /\ idx' = idx + 1
                    /\ UNCHANGED <<disk, writes, raised, thrown>>
    /\ UNCHANGED <<serviceVars, fileChanges, recoverVars, setupVars, ctxVars, compileVars, docs,
                   stageLog, calls>>

NextApply ==
    \/ GenerateFileChanges
    \/ ApplyChange

SpecApply == InitApply /\ [][NextApply]_vars

(***************************************************************************)
(* Properties                                                              *)
(***************************************************************************)
Last(s) == s[Len(s)]

Started(t) == t \in Range(stageLog)

\* the writeFileWithContent calls of stage t, in call order
RECURSIVE WritesOf(_, _)
WritesOf(t, log) ==
    IF log = <<>> THEN <<>>
    ELSE IF Head(log).stage = t
         THEN <<[path |-> Head(log).path, content |-> Head(log).content]>>
              \o WritesOf(t, Tail(log))
         ELSE WritesOf(t, Tail(log))

\* the run has left the compile task
CompileLeft ==
    \/ pc \in {"DOCUMENT", "DOCUMENT_FILES", "ENHANCE", "DONE"}
    \/ pc = "FAILED" /\ thrown \in {"DOCUMENT", "ENHANCE"}

\* the run has left the structure task and its file tasks
StructureLeft ==
    \/ pc \in {"INSTALL", "COMPILE", "FIX", "FIX_WRITE", "RECOMPILE"}
    \/ CompileLeft
    \/ pc = "FAILED" /\ thrown = "INSTALL"

\* C1: the stages start in the order PLAN, STRUCTURE, INSTALL, COMPILE,
\* DOCUMENT, ENHANCE, none twice and none before the previous one completed:
\* the stages started so far are a prefix of that order, and a run that is
\* inside a stage or about to start one has started exactly the stages up to it.
C1_StageOrder ==
    LET order == <<"PLAN", "STRUCTURE", "INSTALL", "COMPILE", "DOCUMENT", "ENHANCE">>
        position == [t \in Range(order) |-> CHOOSE i \in DOMAIN order : order[i] = t]
    IN /\ Len(stageLog) <= Len(order)
       /\ \A i \in DOMAIN stageLog : stageLog[i] = order[i]
       /\ pc \in Range(order) => Len(stageLog) = position[pc] - 1
       /\ pc \in {"STRUCTURE_DIRS", "STRUCTURE_FILES"} => Len(stageLog) = position["STRUCTURE"]
       /\ pc \in {"FIX", "FIX_WRITE", "RECOMPILE"} => Len(stageLog) = position["COMPILE"]
       /\ pc = "DOCUMENT_FILES" => Len(stageLog) = position["DOCUMENT"]

\* a generate run went through all six stages, fix-retry included
C1_Witness ==
    /\ pc = "DONE"
    /\ stageLog = <<"PLAN", "STRUCTURE", "INSTALL", "COMPILE", "DOCUMENT", "ENHANCE">>
    /\ calls["fix"] = 1
    /\ calls["compile"] = 2

\* C2: in one run each provider operation is invoked at most once and the
\* compiler at most twice, whatever the compile results and provider outcomes.
C2_BoundedCalls ==
    /\ \A op \in {"plan", "structure", "fix", "docs", "enhance"} : calls[op] <= 1
    /\ calls["compile"] <= 2

\* the second compile failed too and the run still finished
C2_Witness ==
    /\ pc = "DONE"
    /\ calls["compile"] = 2
    /\ recompilationResult # Null
    /\ ~recompilationResult.success

\* C3: once COMPILE has started, the run leaves the compile task only to
\* DOCUMENT, whatever the compiles, the fix operation and the writes of the
\* fixed files do; it never moves to FAILED from there.
C3_CompileNeverFails ==
    [][(pc \in {"COMPILE", "FIX", "FIX_WRITE", "RECOMPILE"})
         => (pc' \in {"COMPILE", "FIX", "FIX_WRITE", "RECOMPILE", "DOCUMENT"}
             /\ thrown' = "")]_vars

\* the write of a fixed file was rejected and DOCUMENT is about to start
C3_Witness ==
    /\ pc = "DOCUMENT"
    /\ "fixWrite" \in raised

\* the stage an error belongs to
StageOf(e) ==
    CASE e = "plan" -> "PLAN"
      [] e \in {"structure", "mkdir", "fileWrite"} -> "STRUCTURE"
      [] e \in {"manifestWrite", "npm"} -> "INSTALL"

\* stage t is the last stage the run started, it failed the run, and
\* generateProject rethrew its error
EndedIn(t) ==
    /\ pc = "FAILED"
    /\ thrown = t
    /\ Last(stageLog) = t

\* C4 as stated: a provider error in PLAN or STRUCTURE, a rejected directory
\* creation or file write of STRUCTURE, or a failure of the installer is
\* never followed by a later stage, and the run does not reach DONE.
C4_Original ==
    \A e \in raised \cap {"plan", "structure", "mkdir", "fileWrite", "manifestWrite", "npm"} :
        /\ Last(stageLog) = StageOf(e)
        /\ pc # "DONE"

\* C4, amended: a provider error in PLAN or STRUCTURE, a rejected directory
\* creation of STRUCTURE, or a failure of the installer ends the run in
\* FAILED at once, with no later stage started and the error rethrown by
\* generateProject; a rejected file write of STRUCTURE does not fail the
\* run, which goes on with the next file or with INSTALL.
C4_FatalStages ==
    /\ [](\A e \in raised \cap {"plan", "structure", "mkdir", "manifestWrite", "npm"} :
              EndedIn(StageOf(e)))
    /\ [][("fileWrite" \in raised' /\ "fileWrite" \notin raised)
            => (pc' \in {"STRUCTURE_FILES", "INSTALL"} /\ thrown' = "")]_vars

\* a directory creation of STRUCTURE was rejected and the run failed there
C4_Witness ==
    /\ "mkdir" \in raised
    /\ EndedIn("STRUCTURE")

\* the first compile failed with a list of errors that the fix operation is asked to repair
Fixable(ceiling) ==
    /\ compilationResult # Null
    /\ ~compilationResult.success
    /\ compilationResult.hasErrors
    /\ Len(compilationResult.errors) > 0
    /\ \A i \in DOMAIN compilationResult.errors : compilationResult.errors[i] <= ceiling

C6_Original ==
    (Fixable(5000) /\ CompileLeft)
    => /\ calls["fix"] = 1
       /\ fixedFiles # Null
       /\ WritesOf("FIX", writes) = fixedFiles.files
       /\ calls["compile"] = 2

\* the fix operation returned a non-empty array and every write of it succeeded
FixApplied ==
    /\ fixedFiles # Null
    /\ "fix" \notin raised
    /\ fixedFiles.kind = "array"
    /\ Len(fixedFiles.files) > 0
    /\ "fixWrite" \notin raised

\* C6, amended: whenever the first compile fails with a non-empty list of
\* errors none longer than the ceiling, the fix operation is called exactly
\* once, with the error list and the context structure; when it returns a
\* non-empty array of files and every write succeeds, each returned file is
\* written over its prior content, in order, and then the compiler is
\* invoked a second time before DOCUMENT starts; otherwise (the operation
\* raises, returns nothing, an empty array or a non-array, or a write is
\* rejected) the compiler is not invoked again.
C6_FixRetry ==
    /\ []((Fixable(5000) /\ CompileLeft)
            => /\ calls["fix"] = 1
               /\ fixArgs = [errors |-> compilationResult.errors,
                             projectStructure |-> projectStructure]
               /\ IF FixApplied
                  THEN /\ WritesOf("FIX", writes) = fixedFiles.files
                       /\ calls["compile"] = 2
                       /\ recompilationResult # Null
                  ELSE calls["compile"] = 1 /\ recompilationResult = Null)
    /\ [](pc = "RECOMPILE"
            => /\ FixApplied
               /\ WritesOf("FIX", writes) = fixedFiles.files
               /\ calls["compile"] = 1
               /\ ~Started("DOCUMENT"))
    /\ [][(pc = "FIX_WRITE" /\ pc' \in {"FIX_WRITE", "RECOMPILE"})
            => disk'[fixedFiles.files[idx].path] = fixedFiles.files[idx].content]_vars

\* the fix operation's files were written and the second compile ran before DOCUMENT
C6_Witness ==
    /\ pc = "DOCUMENT"
    /\ Fixable(5000)
    /\ FixApplied
    /\ calls["compile"] = 2

\* the documentation task ran to its end
DocumentCompleted ==
    /\ Started("DOCUMENT")
    /\ pc # "DOCUMENT_FILES"
    /\ raised \cap {"docs", "docsShape", "docsWrite"} = {}

\* C7: ENHANCE (the enhancement call and the write of ENHANCEMENTS.md) runs
\* exactly when the run is not an update and DOCUMENT completed; an update
\* run never calls the enhancement operation and never makes that write.
C7_EnhanceIffGenerate ==
    /\ Started("ENHANCE") => (~isUpdate /\ DocumentCompleted)
    /\ (pc \in {"DONE", "FAILED"} /\ ~isUpdate /\ DocumentCompleted) => Started("ENHANCE")
    /\ Started("ENHANCE") <=> calls["enhance"] = 1
    /\ calls["enhance"] <= 1
    /\ \A i \in DOMAIN writes :
          writes[i].stage = "ENHANCE" => writes[i].path = "ENHANCEMENTS.md"
    /\ WritesOf("ENHANCE", writes) # <<>> => Started("ENHANCE")
    /\ (pc = "DONE" /\ ~isUpdate)
          => (Len(WritesOf("ENHANCE", writes)) = 1
              /\ disk["ENHANCEMENTS.md"] = WritesOf("ENHANCE", writes)[1].content)
    /\ isUpdate => (calls["enhance"] = 0 /\ WritesOf("ENHANCE", writes) = <<>>)

\* a generate run finished with the enhancement suggestions written
C7_Witness ==
    /\ pc = "DONE"
    /\ ~isUpdate
    /\ calls["enhance"] = 1
    /\ disk["ENHANCEMENTS.md"] = Text("x")

\* C8: the file tasks of STRUCTURE run one at a time in sequence order; in
\* an update run a file is written exactly when its path has no file on disk
\* or the content on disk, read at that moment, differs from the file's
\* content; in a generate run every file of the structure is written.  (A
\* write is the call of writeFileWithContent on the file; when the call
\* succeeds the disk holds the file's content, otherwise the disk is unchanged.)
C8_FileTasks ==
    /\ [](pc = "STRUCTURE_FILES" => idx \in 1..Len(projectStructure.files))
    /\ []((pc = "STRUCTURE_FILES" /\ ~isUpdate)
            => WritesOf("STRUCTURE", writes) = SubSeq(projectStructure.files, 1, idx - 1))
    /\ []((StructureLeft /\ ~isUpdate)
            => WritesOf("STRUCTURE", writes) = projectStructure.files)
    /\ [][(pc = "STRUCTURE_FILES")
            => LET file == projectStructure.files[idx]
                   mustWrite == \/ ~isUpdate
                                \/ disk[file.path] = NoFile
                                \/ disk[file.path] # file.content
               IN /\ idx' = idx + 1
                  /\ (writes' # writes) <=> mustWrite
                  /\ mustWrite =>
                        /\ Len(writes') = Len(writes) + 1
                        /\ SubSeq(writes', 1, Len(writes)) = writes
                        /\ Last(writes').stage = "STRUCTURE"
                        /\ Last(writes').path = file.path
                        /\ Last(writes').content = file.content
                        /\ disk' = IF Last(writes').ok
                                   THEN [disk EXCEPT ![file.path] = file.content]
                                   ELSE disk
                  /\ ~mustWrite => disk' = disk]_vars

\* an update run wrote one of the two files of its structure and skipped the other
C8_Witness ==
    /\ isUpdate
    /\ pc = "INSTALL"
    /\ Len(projectStructure.files) = 2
    /\ Len(WritesOf("STRUCTURE", writes)) = 1

\* an update run whose snapshot was loaded and whose provider returned a structure
Reconciled ==
    /\ isUpdate
    /\ existingStructure # Null
    /\ freshStructure # Null
    /\ freshStructure # Malformed
    /\ projectStructure # Null

\* C9: in an update run whose snapshot was loaded, every snapshot file whose
\* path is not a path of the fresh structure is in the reconciled structure
\* with its snapshot content and is never written during STRUCTURE, while a
\* file of the fresh structure is written whenever its path is new or the
\* content on disk differs from its content.
C9_UpdateWrites ==
    /\ [](Reconciled
            => \A f \in Range(existingStructure.files) :
                  f.path \notin PathsOf(freshStructure.files)
                  => /\ f \in Range(projectStructure.files)
                     /\ \A i \in DOMAIN writes :
                           writes[i].stage = "STRUCTURE" => writes[i].path # f.path)
    /\ [][(pc = "STRUCTURE_FILES" /\ Reconciled)
            => LET file == projectStructure.files[idx]
               IN (/\ file \in Range(freshStructure.files)
                   /\ disk[file.path] = NoFile \/ disk[file.path] # file.content)
                  => /\ Len(writes') = Len(writes) + 1
                     /\ Last(writes').stage = "STRUCTURE"
                     /\ Last(writes').path = file.path
                     /\ Last(writes').content = file.content]_vars

\* the snapshot held a.ts, the fresh structure only b.ts: b.ts was written, a.ts kept
C9_Witness ==
    /\ Reconciled
    /\ pc = "INSTALL"
    /\ [path |-> "a.ts", content |-> Text("x")] \in Range(existingStructure.files)
    /\ PathsOf(freshStructure.files) = {"b.ts"}
    /\ disk["a.ts"] = Text("x")
    /\ disk["b.ts"] # NoFile
    /\ \E i \in DOMAIN writes : writes[i].stage = "STRUCTURE" /\ writes[i].path = "b.ts"

\* C10: the files of merge(existing, fresh) are exactly the files of fresh
\* plus the files of existing whose path is not a path of fresh, each with
\* its own content; for a path of both inputs the content is fresh's.
C10_MergeFiles ==
    pc = "MERGED"
    => LET r == projectStructure.files
           e == existingStructure.files
           f == freshStructure.files
       IN /\ Range(r) = Range(f) \cup {x \in Range(e) : x.path \notin PathsOf(f)}
          /\ Len(r) = Len(f) + Cardinality({i \in DOMAIN e : e[i].path \notin PathsOf(f)})
          /\ \A i \in DOMAIN r :
                r[i].path \in PathsOf(e) \cap PathsOf(f) => r[i] \in Range(f)

\* existing a.ts and b.ts, fresh b.ts with new content: a.ts carried over, b.ts fresh
C10_Witness ==
    /\ pc = "MERGED"
    /\ existingStructure.files = <<[path |-> "a.ts", content |-> Text("x")],
                                   [path |-> "b.ts", content |-> Text("x")]>>
    /\ freshStructure.files = <<[path |-> "b.ts", content |-> Text("y")]>>
    /\ projectStructure.files = <<[path |-> "a.ts", content |-> Text("x")],
                                  [path |-> "b.ts", content |-> Text("y")]>>

\* no path is the path of two entries of files
UniquePaths(files) ==
    \A i, j \in DOMAIN files : files[i].path = files[j].path => i = j

\* C11: when existing and fresh each have unique file paths, no path appears
\* twice in the files of merge(existing, fresh).
C11_MergeUniquePaths ==
    (/\ pc = "MERGED"
     /\ UniquePaths(existingStructure.files)
     /\ UniquePaths(freshStructure.files))
    => UniquePaths(projectStructure.files)

\* both inputs hold a.ts and b.ts, with different contents: the result holds each once
C11_Witness ==
    /\ pc = "MERGED"
    /\ UniquePaths(existingStructure.files)
    /\ UniquePaths(freshStructure.files)
    /\ PathsOf(existingStructure.files) = {"a.ts", "b.ts"}
    /\ PathsOf(freshStructure.files) = {"a.ts", "b.ts"}
    /\ existingStructure.files # freshStructure.files
    /\ Len(projectStructure.files) = 2

UnionFreshFirst(e, f, merged) ==
    /\ DOMAIN merged = (DOMAIN e) \cup (DOMAIN f)
    /\ \A k \in DOMAIN merged : merged[k] = IF k \in DOMAIN f THEN f[k] ELSE e[k]

\* C13: each dependency map of merge(existing, fresh) has as keys the union
\* of the keys of the two input maps, and maps a key to fresh's version when
\* fresh has the key and to existing's version otherwise.
C13_MergeDependencies ==
    pc = "MERGED"
    => /\ UnionFreshFirst(existingStructure.dependencies.dependencies,
                          freshStructure.dependencies.dependencies,
                          projectStructure.dependencies.dependencies)
       /\ UnionFreshFirst(existingStructure.dependencies.devDependencies,
                          freshStructure.dependencies.devDependencies,
                          projectStructure.dependencies.devDependencies)

\* existing has d1 and d2, fresh has d1 at another version: d1 is fresh's, d2 existing's
C13_Witness ==
    /\ pc = "MERGED"
    /\ existingStructure.dependencies.dependencies = [k \in {"d1", "d2"} |-> "1"]
    /\ freshStructure.dependencies.dependencies = [k \in {"d1"} |-> "2"]
    /\ projectStructure.dependencies.dependencies = [d1 |-> "2", d2 |-> "1"]

\* C14: the directories of merge(existing, fresh), taken as a set, are the
\* union of existing's and fresh's directories, and no directory is listed
\* twice in the result.
C14_MergeDirectories ==
    pc = "MERGED"
    => /\ Range(projectStructure.directories) =
            Range(existingStructure.directories) \cup Range(freshStructure.directories)
       /\ \A i, j \in DOMAIN projectStructure.directories :
            projectStructure.directories[i] = projectStructure.directories[j] => i = j

\* a directory of both inputs, listed twice in fresh, is listed once in the result
C14_Witness ==
    /\ pc = "MERGED"
    /\ existingStructure.directories = <<"src", "lib">>
    /\ freshStructure.directories = <<"lib", "lib">>
    /\ projectStructure.directories = <<"src", "lib">>

\* two structures with the same directories (a set), the same files and the
\* same dependency maps
SameStructure(a, b) ==
    /\ Range(a.directories) = Range(b.directories)
    /\ a.files = b.files
    /\ a.dependencies = b.dependencies

\* C15: the empty structure is an identity of merge on both sides:
\* merge(existing, empty) is existing and merge(empty, fresh) is fresh (same
\* directories, same files with the same content, same dependency maps).
C15_MergeIdentity ==
    pc = "MERGED"
    => /\ freshStructure = EmptyStructure
            => SameStructure(projectStructure, existingStructure)
       /\ existingStructure = EmptyStructure
            => SameStructure(projectStructure, freshStructure)

\* a structure with a directory, two files and dependencies merged with the empty one
C15_Witness ==
    /\ pc = "MERGED"
    /\ freshStructure = EmptyStructure
    /\ existingStructure.directories = <<"src">>
    /\ Len(existingStructure.files) = 2
    /\ DOMAIN existingStructure.dependencies.dependencies = {"d1"}
    /\ projectStructure = existingStructure

DefaultKinds == {"plan", "structure", "documentation", "scan"}

\* C16: parseJsonFromText returns a value and never raises, for every text:
\* a parsed value, or one of the typed defaults when every strategy failed.
C16_NeverRaises ==
    pc = "RECOVERED"
    => /\ recovered.kind \in {"parsed"} \cup DefaultKinds
       /\ ~Strategies(response.text).ok => recovered.kind \in DefaultKinds

\* a lone closing brace: no strategy parses it, a default comes back
C16_Witness ==
    /\ pc = "RECOVERED"
    /\ response.text = <<"}">>
    /\ ~Strategies(response.text).ok
    /\ recovered = Default("structure")

\* the shape the caller of each operation expects
HasShape(op, r) ==
    IF op = "fix" THEN IsArray(r)
    ELSE /\ IsObject(r)
         /\ IF op = "plan" THEN {<<"projectName">>, <<"description">>} \subseteq KeysOf(r)
            ELSE IF op = "structure"
            THEN {<<"directories">>, <<"files">>} \subseteq KeysOf(r)
            ELSE IF op = "docs" THEN <<"readme">> \in KeysOf(r)
            ELSE {<<"issues">>, <<"suggestions">>} \subseteq KeysOf(r)

\* C17: for every operation that recovers structured output and every
\* response text, the recovered value has the shape the operation's caller
\* expects (a plan, a structure, an array of files, a documentation, an
\* issues/suggestions pair).
C17_Original ==
    pc = "RECOVERED" => HasShape(operation, recovered)

\* C18: for a valid JSON object or array, possibly preceded by prose,
\* followed by prose or wrapped in a fence, parseJsonFromText returns
\* exactly the value of that JSON.
C18_Original ==
    (pc = "RECOVERED" /\ response.kind = "wrapped")
    => recovered = Parsed(JSONparse(response.expected).value)

\* C19: for JSON with one repairable defect (an unescaped interior quote, a
\* trailing comma, single-quoted strings, a missing comma between objects,
\* an extra closing bracket), parseJsonFromText returns the value of the
\* repaired JSON, not a default.
C19_Original ==
    (pc = "RECOVERED"
     /\ response.kind \in {"unescaped quote", "trailing comma", "single quotes",
                           "missing comma", "extra closer"})
    => recovered = Parsed(JSONparse(response.expected).value)

\* C20: when no strategy recovers JSON, the result is the default chosen by
\* the keywords of the text, tested in this order: the plan for projectName
\* or description, else the structure for directories or files, else the
\* documentation for readme, else the issues/suggestions pair for issues or
\* suggestions, and the structure when the text has no keyword.
C20_KeywordDefault ==
    (pc = "RECOVERED" /\ recovered.kind # "parsed")
    => LET has(k) == \E i \in DOMAIN response.text : response.text[i] = k
           plan == has("projectName") \/ has("description")
           structure == has("directories") \/ has("files")
           documentation == has("readme")
           scan == has("issues") \/ has("suggestions")
       IN /\ plan => recovered = Default("plan")
          /\ (~plan /\ structure) => recovered = Default("structure")
          /\ (~plan /\ ~structure /\ documentation) => recovered = Default("documentation")
          /\ (~plan /\ ~structure /\ ~documentation /\ scan) => recovered = Default("scan")
          /\ (~plan /\ ~structure /\ ~documentation /\ ~scan)
                => recovered = Default("structure")

\* a text with a structure keyword before a plan keyword: the plan default
C20_Witness ==
    /\ pc = "RECOVERED"
    /\ response.text = <<"files", "description">>
    /\ recovered = Default("plan")

\* C21: the repair transform is idempotent: applied to its own output it
\* gives that output back.
C21_Original ==
    [][(pc = "REPAIR" /\ idx = 1) => recovered'.value = recovered.value]_vars

\* C28: the output of the repair transform has as many opening as closing
\* braces and as many opening as closing brackets.
C28_Original ==
    (pc = "REPAIR" /\ idx = 1)
    => /\ Count(recovered.value, "{") = Count(recovered.value, "}")
       /\ Count(recovered.value, "[") = Count(recovered.value, "]")

\* the dependency maps of the manifest at package.json (empty maps when
\* there is no manifest)
ManifestOf(d) ==
    IF IsFile(d, "package.json") /\ "dependencies" \in DOMAIN d["package.json"]
    THEN d["package.json"]
    ELSE ManifestContent(EmptyMap, EmptyMap)

\* map now has the keys of prior and declared, declared's version first
DeclaredOverPrior(prior, declared, now) ==
    /\ DOMAIN now = (DOMAIN prior) \cup (DOMAIN declared)
    /\ \A k \in DOMAIN now : now[k] = IF k \in DOMAIN declared THEN declared[k] ELSE prior[k]

\* INSTALL wrote the manifest in this step
ManifestWritten ==
    /\ pc = "INSTALL"
    /\ Len(writes') = Len(writes) + 1
    /\ writes'[Len(writes')].ok

\* C22: the manifest INSTALL writes has, in each dependency map, every key
\* of the manifest as it was before INSTALL and every key the context
\* structure declares, with the declared version for a declared key and the
\* prior version otherwise; the installer is invoked only after this write,
\* and exactly once.
C22_InstallManifest ==
    /\ [][ManifestWritten =>
            /\ DeclaredOverPrior(ManifestOf(disk).dependencies,
                                 projectStructure.dependencies.dependencies,
                                 ManifestOf(disk').dependencies)
            /\ DeclaredOverPrior(ManifestOf(disk).devDependencies,
                                 projectStructure.dependencies.devDependencies,
                                 ManifestOf(disk').devDependencies)
            /\ calls["install"] = 0
            /\ calls'["install"] = 1]_vars
    /\ [](/\ calls["install"] <= 1
          /\ calls["install"] = 1 =>
                \E i \in DOMAIN writes :
                    writes[i].stage = "INSTALL" /\ writes[i].path = "package.json"
                    /\ writes[i].ok)

\* a generate run over a manifest with d1 and d2: d1 now at the declared
\* version, d2 kept, and the installer invoked once
C22_Witness ==
    /\ ~isUpdate
    /\ Started("COMPILE")
    /\ calls["install"] = 1
    /\ ManifestOf(disk).dependencies = [d1 |-> "2", d2 |-> "1"]
    /\ ManifestOf(disk).devDependencies = [d1 |-> "1"]

\* the errors raised by a provider call, a filesystem write or the installer
ExternalErrors ==
    {"outputDir", "plan", "structure", "mkdir", "fileWrite", "manifestWrite", "npm",
     "fix", "fixWrite", "docs", "docsWrite", "enhance", "enhanceWrite"}

\* C23: a run in which no provider call raises, no filesystem write raises
\* and the installer succeeds does not fail, whatever the provider's
\* responses recover to: it is never in FAILED.
C23_Original ==
    pc = "FAILED" => raised \cap ExternalErrors # {}

\* C24: after the fix files were written, the context structure holds, for
\* every rewritten path, the content now on disk, so the structure given to
\* the docs operation is the structure the run wrote.
C24_Original ==
    (pc \in {"RECOMPILE", "DOCUMENT"} /\ "fixWrite" \notin raised)
    => \A w \in Range(WritesOf("FIX", writes)) :
          \E i \in DOMAIN projectStructure.files :
             /\ projectStructure.files[i].path = w.path
             /\ projectStructure.files[i].content = disk[w.path]

\* C25: in an update run whose snapshot extraction raises, the run goes on
\* as a fresh generation: it is not aborted, PLAN is called with the plain
\* requirements, and the generated structure is stored in the context
\* without reconciliation.
C25_ExtractionFallback ==
    "extract" \in raised
    => /\ isUpdate
       /\ existingStructure = Null
       /\ pc # "INIT"
       /\ raised = {"extract"} => pc # "FAILED"
       /\ projectPlan # Null => projectPlan.requirements = "requirements"
       /\ projectStructure # Null => projectStructure = freshStructure

\* the extraction raised and the run finished with the provider's structure
C25_Witness ==
    /\ "extract" \in raised
    /\ pc = "DONE"
    /\ projectPlan.requirements = "requirements"
    /\ Len(freshStructure.files) > 0
    /\ projectStructure = freshStructure

\* C26: for gemini, azure and groq an absent credential fails the run when
\* the adapter is created: no stage has started, no provider call was made
\* and the output directory was not created; ollama is created without one.
C26_CredentialAtCreation ==
    (pc # "CREATE" /\ ~apiKey)
    => /\ modelName \in {"gemini", "azure", "groq"}
            => /\ pc = "FAILED"
               /\ thrown = "CREATE"
               /\ raised = {"credential"}
               /\ stageLog = <<>>
               /\ calls = NoCalls
               /\ writes = <<>>
       /\ modelName = "ollama"
            => /\ "credential" \notin raised
               /\ thrown # "CREATE"

\* gemini without its key: the run failed at the creation of the adapter
C26_Witness ==
    /\ modelName = "gemini"
    /\ ~apiKey
    /\ pc = "FAILED"
    /\ thrown = "CREATE"

\* C29: in an update run that reached DONE, every file that was on disk
\* before the run and whose path is not a path of the freshly generated
\* structure has the content it had before the run.
C29_Original ==
    (isUpdate /\ pc = "DONE")
    => \A p \in DiskPaths :
          (IsFile(diskBefore, p) /\ p \notin PathsOf(freshStructure.files))
          => disk[p] = diskBefore[p]

\* C30: starting from a directory that holds exactly the files of existing,
\* applying compareStructuresForChanges(existing, updated) leaves the
\* directory holding exactly the files of updated, path for path and
\* content for content (files with empty content included).
C30_Original ==
    pc = "APPLIED" => disk = DirectoryOf(freshStructure)

\* C27: every run eventually ends in DONE or FAILED when each external call
\* returns or raises; no sequence of compile failures and fix results keeps
\* it in the compile task forever.
C27_Terminates == <>(pc \in {"DONE", "FAILED"})

\* the second compile failed too and the run went on to DONE
C27_Witness ==
    /\ pc = "DONE"
    /\ recompilationResult # Null
    /\ ~recompilationResult.success
    /\ calls["compile"] = 2

====
